---- MODULE Spec2Model ----
(***************************************************************************)
(* A model of zope.schema's field/validation engine (_field.py):           *)
(*   - the recursive schema walk (_validate_fields, Object._validate) with  *)
(*     its thread-local cycle guard VALIDATED_VALUES, run by threads that   *)
(*     interleave at the granularity of one attribute;                      *)
(*   - Choice construction / bind / validation and collection validation.   *)
(* Python values are modelled as strings: objects "a", "b", an int "i1",    *)
(* a text "u1", and None.  Exceptions are records [type |-> class name].    *)
(***************************************************************************)
EXTENDS Integers, Sequences, FiniteSets, TLC

VARIABLES
    attrs,             \* attrs[o][n]: the value of attribute n of object o, or NoAttr
    provides,          \* provides[o]: the schemas object o provides
    invBad,            \* the objects on which the schemas' invariants fail
    binderOut,         \* binderOut[o]: what the context source binder returns for context o
    top,               \* top[t]: the top-level call thread t makes (field, value), or NoCall
    pc,                \* pc[t]: "idle", "running" or "done"
    stack,             \* stack[t]: the thread's call stack (frames of Object._validate / _validate_fields)
    ret,               \* ret[t]: what the callee that just finished returned or raised
    VALIDATED_VALUES,  \* the threading.local: one identity set per thread-local dict
    outcome,           \* outcome[t]: what the top-level validate call returned or raised
    exits,             \* history: exits[t] describes the last exit of _validate_fields on t
    ovExit,            \* history: ovExit[t] describes the last exit of Object._validate on t
    reached,           \* history: the (schema, value) pairs _validate_fields was called with on t
    checked,           \* history: the (schema, value, name) triples whose field validate was invoked on t
    heap,              \* the field objects: heap[i] is the field at address i (prototypes first, then clones)
    last               \* the last constructor, bind or validate call on a field, with its result

world == <<attrs, provides, invBad, binderOut, top>>
history == <<exits, ovExit, reached, checked>>
fields == <<heap, last>>
vars == <<attrs, provides, invBad, binderOut, top, pc, stack, ret,
          VALIDATED_VALUES, outcome, exits, ovExit, reached, checked, heap, last>>

\* ------------------------------------------------------------------ bounds
\* The deepest call stack the model follows (frames); the guard keeps it below.
MaxDepth == 8
\* The clones the heap may hold besides the prototypes.
MaxClones == 3
\* The longest list, tuple or dict a collection field is given.
MaxLen == 3
\* The longest text fromUnicode is given (characters).
MaxText == 3

\* max_length = None
Unlimited == 0 - 1
\* value_type = None, key_type = None in a field on the heap
NoField == 0

Threads == {"t1", "t2"}
Objs == {"a", "b"}
None == "None"
NoAttr == "NoAttr"

\* ------------------------------------------------------------ Python values
\* the scalars: an int, a byte string, and texts (one of them with a newline)
TypeOf(v) ==
    CASE v \in Objs -> "object"
      [] v = "i1" -> "int"
      [] v = "b1" -> "bytes"
      [] v \in {"u1", "u2", "nl"} -> "text"
      [] OTHER -> "NoneType"

\* id(value): distinct live objects have distinct identities
id(v) == v

\* ------------------------------------------------------------------- errors
Exc(type) == [type |-> type]
ValidationErrors ==
    {"RequiredMissing", "WrongType", "ConstraintNotSatisfied", "SchemaNotProvided",
     "TooShort", "TooLong", "TooSmall", "TooBig",
     "InvalidFloatLiteral", "InvalidDecimalLiteral", "InvalidURI", "InvalidDottedName",
     "InvalidId",
     "SchemaNotCorrectlyImplemented", "SchemaNotFullyImplemented",
     "WrongContainedType", "NotUnique"}
\* `except ValidationError`
IsValidationError(e) == e.type \in ValidationErrors

Returned(v) == [kind |-> "return", val |-> v]
Raised(e) == [kind |-> "raise", val |-> e]
NoRet == [kind |-> "none"]
\* what a call that returns nothing returns
NoValue == [type |-> "NoneType"]

EmptyMap == [n \in {} |-> Exc("x")]
Put(m, n, e) == [k \in (DOMAIN m) \cup {n} |-> IF k = n THEN e ELSE m[k]]

\* --------------------------------------------------- vocabularies and sources
\* "V1" is a vocabulary object holding {"i1"}; "Src" is a source that is not a
\* vocabulary, holding {"u1"}; "SV1" and "SV0" are the SimpleVocabulary made
\* from the value lists "vals1" ([i1]) and "vals0" ([]); "Bnd" is a context
\* source binder; "Junk" is none of these; "reg", "unreg" and "" are strings.
IBaseVocabulary(x) == x \in {"V1", "SV1", "SV0"}
ISource(x) == x \in {"V1", "SV1", "SV0", "Src"}
IContextSourceBinder(x) == x = "Bnd"
string_types(x) == x \in {"reg", "unreg", ""}
Members(vocabulary) ==
    CASE vocabulary \in {"V1", "SV1"} -> {"i1"}
      [] vocabulary = "Src" -> {"u1"}
      [] OTHER -> {}
\* SimpleVocabulary.fromValues(values)
fromValues(values) == IF values = "vals1" THEN "SV1" ELSE "SV0"

\* ------------------------------------------------------------------ schemas
Interface == "Interface"
Schemas == {Interface, "IA", "IB"}

\* A field object: every attribute the model reads, with the class defaults.
\* value_type and key_type hold the sub-field itself (NoFieldRec for None) in
\* a field written as a value, and its heap address in a field on the heap.
NoFieldRec == [kind |-> "none"]
NewField(kind, type, required) ==
    [kind |-> kind, type |-> type, required |-> required, context |-> None,
     schema |-> None, validate_invariants |-> FALSE,
     vocabulary |-> None, vocabularyName |-> None, init_field |-> FALSE,
     value_type |-> NoFieldRec, key_type |-> NoFieldRec, unique |-> FALSE,
     min_length |-> 0, max_length |-> Unlimited]

\* Object(schema, validate_invariants=...), lines 681-697
ObjectField(schema, validate_invariants) ==
    [NewField("Object", "any", FALSE) EXCEPT
        !.schema = schema, !.validate_invariants = validate_invariants]
IntField == NewField("Int", "int", TRUE)
TextLineField == NewField("TextLine", "text", TRUE)
\* a Choice as the constructor leaves it, lines 307-326
ChoiceField(vocabulary, vocabularyName) ==
    [NewField("Choice", "any", TRUE) EXCEPT
        !.vocabulary = vocabulary, !.vocabularyName = vocabularyName]

\* schema.names(all=True)
names(schema) ==
    CASE schema = "IA" -> <<"m", "next", "other", "x">>
      [] schema = "IB" -> <<"any", "p", "x">>
      [] OTHER -> <<>>

\* schema[name]
Declared(schema, name) ==
    CASE schema = "IA" /\ name = "m" -> [kind |-> "Method"]
      [] schema = "IA" /\ name = "next" -> ObjectField("IA", FALSE)
      [] schema = "IA" /\ name = "other" -> ObjectField("IB", TRUE)
      [] schema = "IA" /\ name = "x" -> IntField
      [] schema = "IB" /\ name = "any" -> ObjectField(Interface, TRUE)
      [] schema = "IB" /\ name = "p" -> [kind |-> "Attribute"]
      [] schema = "IB" /\ name = "x" -> ChoiceField("Bnd", None)

IMethod(attribute) == attribute.kind = "Method"
IChoice(attribute) == attribute.kind = "Choice"
IField(attribute) == attribute.kind \notin {"Method", "Attribute", "none"}

\* schema.providedBy(value)
providedBy(schema, value) ==
    schema = Interface \/ (value \in Objs /\ schema \in provides[value])

\* schema.validateInvariants(value, invariant_errors): the errors the hook appends
validateInvariants(schema, value) ==
    IF schema # Interface /\ value \in invBad THEN <<Exc("Invalid")>> ELSE <<>>

\* getattr(value, name)
getattr(value, name) == attrs[value][name]

\* ------------------------------------------------ Field (the base contract)
Ok == [type |-> "ok"]

\* Field.validate before it calls _validate: the missing value is either
\* rejected (required) or accepted without further checks
Field_validate_missing(f, value) ==
    IF value = None
    THEN (IF f.required THEN "RequiredMissing" ELSE "skip")
    ELSE "run"

\* Field._validate: the _type check, then the constraint hook (the default
\* constraint accepts everything, TextLine's rejects a newline)
Field__validate(f, value) ==
    IF f.type # "any" /\ TypeOf(value) # f.type THEN Exc("WrongType")
    ELSE IF f.kind = "TextLine" /\ value = "nl" THEN Exc("ConstraintNotSatisfied")
    ELSE Ok

\* --------------------------------------------------------------- Choice
\* getVocabularyRegistry().get(context, name): the one registered name is "reg"
RegistryHas(name) == name = "reg"
RegistryGet(context, name) == IF context = "b" THEN "Src" ELSE "V1"

\* a context source binder called with the owning object
CallBinder(binder, object) == binderOut[object]

\* (mutant) bind storing what it resolves on the field it was called on
BindTargetSelf(self, clone) == self

\* the object Choice.bind (lines 335, 338), AbstractCollection.bind (line 559)
\* and Mapping.bind (lines 800, 802) assign to: the clone
BindTarget(self, clone) == clone

\* the field at address i with its sub-fields in place of their addresses
RECURSIVE Deref(_, _)
Deref(h, i) ==
    IF i = NoField THEN NoFieldRec
    ELSE [h[i] EXCEPT !.value_type = Deref(h, h[i].value_type),
                      !.key_type = Deref(h, h[i].key_type)]

\* Field.bind: a shallow copy of the field, with the owning object as context
Field_bind(h, self, object) == Append(h, [h[self] EXCEPT !.context = object])

\* (mutant) bind returning the clone whatever its vocabulary is
Choice_bind_unchecked(h, clone) == [heap |-> h, result |-> Returned(clone)]

\* Choice.bind lines 340-343: the vocabulary check on the clone
Choice_bind_check(h, clone) ==
    IF ~ISource(h[clone].vocabulary)
    THEN [heap |-> h, result |-> Raised(Exc("ValueError"))]
    ELSE [heap |-> h, result |-> Returned(clone)]

\* Choice.bind, lines 332-343, after the clone was made
Choice_bind_on(h, self, clone, object) ==
    IF IContextSourceBinder(h[self].vocabulary)
    THEN Choice_bind_check(
             [h EXCEPT ![BindTarget(self, clone)].vocabulary =
                           CallBinder(h[self].vocabulary, object)], clone)
    ELSE IF h[clone].vocabulary = None /\ h[self].vocabularyName # None
         THEN (IF RegistryHas(h[self].vocabularyName)
               THEN Choice_bind_check(
                        [h EXCEPT ![BindTarget(self, clone)].vocabulary =
                                      RegistryGet(object, h[self].vocabularyName)], clone)
               ELSE [heap |-> h, result |-> Raised(Exc("VocabularyRegistryError"))])
         ELSE Choice_bind_check(h, clone)

CollectionKinds == {"Tuple", "List"}
MappingKinds == {"Dict"}

\* field.bind(object) on the heap h: the heap afterwards, and the address of
\* the clone returned or the exception raised
RECURSIVE bind(_, _, _)
bind(h, self, object) ==
    LET h1 == Field_bind(h, self, object)
        clone == Len(h1)
    IN  CASE h[self].kind = "Choice" -> Choice_bind_on(h1, self, clone, object)
          [] h[self].kind \in CollectionKinds ->
                \* AbstractCollection.bind, lines 553-560
                IF h1[clone].value_type = NoField
                THEN [heap |-> h1, result |-> Returned(clone)]
                ELSE LET v == bind(h1, h1[clone].value_type, object) IN
                     IF v.result.kind = "raise" THEN v
                     ELSE [heap |-> [v.heap EXCEPT
                                       ![BindTarget(self, clone)].value_type = v.result.val],
                           result |-> Returned(clone)]
          [] h[self].kind \in MappingKinds ->
                \* Mapping.bind, lines 794-803
                LET k == IF h1[clone].key_type = NoField
                         THEN [heap |-> h1, result |-> Returned(NoField)]
                         ELSE bind(h1, h1[clone].key_type, object)
                    h2 == IF h1[clone].key_type = NoField \/ k.result.kind = "raise"
                          THEN k.heap
                          ELSE [k.heap EXCEPT
                                  ![BindTarget(self, clone)].key_type = k.result.val]
                IN  IF k.result.kind = "raise" THEN k
                    ELSE IF h2[clone].value_type = NoField
                    THEN [heap |-> h2, result |-> Returned(clone)]
                    ELSE LET v == bind(h2, h2[clone].value_type, object) IN
                         IF v.result.kind = "raise" THEN v
                         ELSE [heap |-> [v.heap EXCEPT
                                           ![BindTarget(self, clone)].value_type = v.result.val],
                               result |-> Returned(clone)]
          [] OTHER -> [heap |-> h1, result |-> Returned(clone)]

\* Choice.bind on a field written as a value: the clone, or the error raised
\* instead of returning one
Choice_bind(f, object) ==
    LET b == bind(<<f>>, 1, object) IN
    IF b.result.kind = "raise" THEN b.result ELSE Returned(b.heap[b.result.val])

\* (mutant) Choice._validate that never asks the registry: a field holding only
\* a name has no vocabulary
Choice__validate_noRegistry(f, value) ==
    IF f.init_field THEN Ok
    ELSE IF Field__validate(f, value) # Ok THEN Field__validate(f, value)
    ELSE IF f.vocabulary = None THEN Exc("ValueError")
    ELSE IF IContextSourceBinder(f.vocabulary) THEN Exc("TypeError")
    ELSE IF value \notin Members(f.vocabulary) THEN Exc("ConstraintNotSatisfied")
    ELSE Ok

\* Choice._validate, lines 351-364
Choice__validate(f, value) ==
    IF f.init_field THEN Ok
    ELSE IF Field__validate(f, value) # Ok THEN Field__validate(f, value)
    ELSE IF f.vocabulary = None /\ ~RegistryHas(f.vocabularyName) THEN Exc("ValueError")
    ELSE LET vocabulary == IF f.vocabulary = None
                           THEN RegistryGet(None, f.vocabularyName)
                           ELSE f.vocabulary IN
         IF IContextSourceBinder(vocabulary) THEN Exc("TypeError")
         ELSE IF value \notin Members(vocabulary) THEN Exc("ConstraintNotSatisfied")
         ELSE Ok

\* field.validate(value) for a field that is not an Object field
Leaf_validate(f, value) ==
    CASE Field_validate_missing(f, value) = "RequiredMissing" -> Exc("RequiredMissing")
      [] Field_validate_missing(f, value) = "skip" -> Ok
      [] OTHER -> IF IChoice(f) THEN Choice__validate(f, value) ELSE Field__validate(f, value)

\* (mutant) the walk validating with the schema's own, unbound field
ValidatorUnbound(attribute, bound) == attribute

\* _validate_fields line 663: the field whose validate is called for a Choice
\* attribute is the clone bind returned
Validator(attribute, bound) == bound

\* (mutant) a constructor that never defers the validation of the default
NeverDeferred(f) == FALSE

\* (mutant) the constructor without its check of values against vocabulary
NeverBothGiven(values, vocabulary) == FALSE

\* Choice.__init__ line 302: values and a vocabulary (or source) both given
BothGiven(values, vocabulary) == values # None /\ vocabulary # None

\* Choice.__init__ lines 323-324: the flag that switches validation off while
\* the base constructor checks the default
Choice_init_field(f) ==
    (f.vocabularyName # None /\ f.vocabularyName # "") \/ IContextSourceBinder(f.vocabulary)

\* Choice.__init__ lines 307-324, with vocabulary already merged with source:
\* the field with its flag set, or the error of the vocabulary check
Choice_construct(values, vocabulary) ==
    LET v == IF values # None THEN fromValues(values)
             ELSE IF string_types(vocabulary) THEN None ELSE vocabulary
        n == IF values = None /\ string_types(vocabulary) THEN vocabulary ELSE None
        f == ChoiceField(v, n)
    IN  IF values = None /\ ~string_types(vocabulary)
           /\ ~ISource(vocabulary) /\ ~IContextSourceBinder(vocabulary)
        THEN Raised(Exc("ValueError"))
        ELSE Returned([f EXCEPT !.init_field = Choice_init_field(f)])

\* Choice.__init__ lines 285-324: the argument checks and the assignments
\* before the base constructor is called
Choice_prepare(values, vocabulary, source) ==
    IF vocabulary # None /\ ~string_types(vocabulary) /\ ~IBaseVocabulary(vocabulary)
    THEN Raised(Exc("ValueError"))
    ELSE IF vocabulary # None /\ source # None
    THEN Raised(Exc("ValueError"))
    ELSE LET merged == IF vocabulary # None THEN vocabulary ELSE source IN
         IF values = None /\ merged = None
         THEN Raised(Exc("ValueError"))
         ELSE IF BothGiven(values, merged)
         THEN Raised(Exc("ValueError"))
         ELSE Choice_construct(values, merged)

\* Choice.__init__ lines 325-326: the base constructor validates the default
\* with the field as it is, then the flag is cleared
Choice_finish(self, default) ==
    IF default # None /\ Leaf_validate(self, default) # Ok
    THEN Raised(Leaf_validate(self, default))
    ELSE Returned([self EXCEPT !.init_field = FALSE])

\* Choice.__init__(values, vocabulary, source, default=...), lines 285-326
Choice___init__(values, vocabulary, source, default) ==
    IF Choice_prepare(values, vocabulary, source).kind = "raise"
    THEN Choice_prepare(values, vocabulary, source)
    ELSE Choice_finish(Choice_prepare(values, vocabulary, source).val, default)

\* ------------------------------------------------------------ collections
\* A list, tuple or dict value: its Python type and its members in iteration
\* order (a dict's members are its <<key, value>> pairs); None has no members.
Container(type, items) == [type |-> type, items |-> items]
NoContainer == Container("NoneType", <<>>)

\* List(value_type=..., unique=..., max_length=...), lines 541-551
CollectionField(kind, type, value_type, unique, max_length) ==
    [NewField(kind, type, TRUE) EXCEPT
        !.value_type = value_type, !.unique = unique, !.max_length = max_length]
\* Dict(key_type=..., value_type=...), lines 758-777
MappingField(key_type, value_type) ==
    [NewField("Dict", "dict", TRUE) EXCEPT !.key_type = key_type, !.value_type = value_type]

\* the base classes' _validate of a container field: the _type check, then
\* min_length and max_length
Container__validate(f, value) ==
    IF value.type # f.type THEN Exc("WrongType")
    ELSE IF Len(value.items) < f.min_length THEN Exc("TooShort")
    ELSE IF f.max_length # Unlimited /\ Len(value.items) > f.max_length THEN Exc("TooLong")
    ELSE Ok

\* with_field_and_value: the error carries the value that was rejected
WithValue(e, value) == [type |-> e.type, value |-> value]
WrongContainedType(errors) == [type |-> "WrongContainedType", errors |-> errors]
NotUnique(item) == [type |-> "NotUnique", item |-> item]

\* _validate_uniqueness, lines 532-538, from member i on
RECURSIVE unique_from(_, _, _)
unique_from(value, i, temp_values) ==
    IF i > Len(value) THEN Ok
    ELSE IF \E j \in 1..Len(temp_values) : temp_values[j] = value[i]
    THEN NotUnique(value[i])
    ELSE unique_from(value, i + 1, Append(temp_values, value[i]))
_validate_uniqueness(f, value) == unique_from(value, 1, <<>>)

RECURSIVE validate(_, _)

\* (mutant) _validate_sequence stopping at the first member that fails
RECURSIVE sequence_failfast(_, _, _, _)
sequence_failfast(value_type, value, i, errors) ==
    IF i > Len(value) \/ errors # <<>> THEN Returned(errors)
    ELSE LET e == validate(value_type, value[i]) IN
         IF e = Ok THEN sequence_failfast(value_type, value, i + 1, errors)
         ELSE IF IsValidationError(e)
         THEN sequence_failfast(value_type, value, i + 1,
                                Append(errors, WithValue(e, value[i])))
         ELSE Raised(e)
_validate_sequence_failfast(value_type, value, errors) ==
    IF value_type = NoFieldRec THEN Returned(errors)
    ELSE sequence_failfast(value_type, value, 1, errors)

\* _validate_sequence lines 524-529, from member i on: a validation error is
\* collected, any other exception leaves the loop
RECURSIVE sequence_from(_, _, _, _)
sequence_from(value_type, value, i, errors) ==
    IF i > Len(value) THEN Returned(errors)
    ELSE LET e == validate(value_type, value[i]) IN
         IF e = Ok THEN sequence_from(value_type, value, i + 1, errors)
         ELSE IF IsValidationError(e)
         THEN sequence_from(value_type, value, i + 1,
                            Append(errors, WithValue(e, value[i])))
         ELSE Raised(e)

\* _validate_sequence(value_type, value, errors), lines 490-529
_validate_sequence(value_type, value, errors) ==
    IF value_type = NoFieldRec THEN Returned(errors)
    ELSE sequence_from(value_type, value, 1, errors)

\* (mutant) AbstractCollection._validate with the uniqueness pass first
AbstractCollection__validate_uniqueFirst(f, value) ==
    LET errors == _validate_sequence(f.value_type, value.items, <<>>) IN
    IF Container__validate(f, value) # Ok THEN Container__validate(f, value)
    ELSE IF f.unique /\ _validate_uniqueness(f, value.items) # Ok
    THEN _validate_uniqueness(f, value.items)
    ELSE IF errors.kind = "raise" THEN errors.val
    ELSE IF errors.val # <<>> THEN WrongContainedType(errors.val)
    ELSE Ok

\* AbstractCollection._validate, lines 562-572
AbstractCollection__validate(f, value) ==
    LET errors == _validate_sequence(f.value_type, value.items, <<>>) IN
    IF Container__validate(f, value) # Ok THEN Container__validate(f, value)
    ELSE IF errors.kind = "raise" THEN errors.val
    ELSE IF errors.val # <<>> THEN WrongContainedType(errors.val)
    ELSE IF f.unique THEN _validate_uniqueness(f, value.items)
    ELSE Ok

\* the keys, or the values, of a dict's items
Column(items, c) == [i \in 1..Len(items) |-> items[i][c]]

\* Mapping._validate, lines 779-792
Mapping__validate(f, value) ==
    LET values == _validate_sequence(f.value_type, Column(value.items, 2), <<>>)
        keys == IF values.kind = "raise" THEN values
                ELSE _validate_sequence(f.key_type, Column(value.items, 1), values.val)
    IN  IF Container__validate(f, value) # Ok THEN Container__validate(f, value)
        ELSE IF keys.kind = "raise" THEN keys.val
        ELSE IF keys.val # <<>> THEN WrongContainedType(keys.val)
        ELSE Ok

\* field.validate(value) of a field written as a value: Ok, or the exception
validate(f, value) ==
    IF f.kind \in CollectionKinds \cup MappingKinds
    THEN IF value.type = "NoneType"
         THEN (IF f.required THEN Exc("RequiredMissing") ELSE Ok)
         ELSE IF f.kind \in CollectionKinds
         THEN AbstractCollection__validate(f, value)
         ELSE Mapping__validate(f, value)
    ELSE Leaf_validate(f, value)

\* no constructor, bind or validate call yet
NoOp == [op |-> "none"]

\* a field placed on the heap: its sub-fields are addresses
OnHeap(f, key_type, value_type) ==
    [f EXCEPT !.key_type = key_type, !.value_type = value_type]

\* The prototype fields, as their constructors leave them. Sub-fields are
\* fields of their own, and two containers may hold the same sub-field.
Prototypes ==
    << OnHeap(Choice___init__("vals1", None, None, None).val, NoField, NoField),
       OnHeap(Choice___init__(None, "reg", None, None).val, NoField, NoField),
       OnHeap(Choice___init__(None, "unreg", None, None).val, NoField, NoField),
       OnHeap(Choice___init__(None, None, "Bnd", None).val, NoField, NoField),
       OnHeap(CollectionField("List", "list", NoFieldRec, FALSE, Unlimited), NoField, 2),
       OnHeap(MappingField(NoFieldRec, NoFieldRec), 4, 2),
       OnHeap(CollectionField("Tuple", "tuple", NoFieldRec, FALSE, Unlimited), NoField, 5),
       OnHeap(CollectionField("List", "list", NoFieldRec, TRUE, Unlimited), NoField, 3),
       OnHeap(MappingField(NoFieldRec, NoFieldRec), 2, 3) >>

\* ------------------------------------------------------- frames and stacks
NoCall == [field |-> [kind |-> "none"], value |-> None]
NoExit == [path |-> "none"]
NoObjectExit == [value |-> None]
NoExc == Exc("none")

\* (mutant) a module-level dict instead of a threading.local: every thread
\* gets the same dict
SharedDict(t) == "t1"

\* threading.local: the dict of the thread that asks
ThreadLocalDict(t) == t

Visited(t) == VALIDATED_VALUES[ThreadLocalDict(t)]

Top(t) == stack[t][Len(stack[t])]
Pop(t) == SubSeq(stack[t], 1, Len(stack[t]) - 1)
SetTop(t, fr) == [stack[t] EXCEPT ![Len(stack[t])] = fr]

ObjectFrame(t, f, value) ==
    [op |-> "Object._validate", field |-> f, value |-> value, pc |-> "start",
     before |-> Visited(t)]
FieldsFrame(t, schema, value) ==
    [op |-> "_validate_fields", schema |-> schema, value |-> value, pc |-> "enter",
     i |-> 1, errors |-> EmptyMap, exc |-> NoExc, before |-> Visited(t),
     validated_by |-> NoFieldRec]

\* list(schema_error_dict.values()): in insertion order, the order of the walk
RECURSIVE Values(_, _, _)
Values(m, schema, i) ==
    IF i > Len(names(schema)) THEN <<>>
    ELSE (IF names(schema)[i] \in DOMAIN m THEN <<m[names(schema)[i]]>> ELSE <<>>)
         \o Values(m, schema, i + 1)

SchemaNotCorrectlyImplemented(schema, schema_error_dict, invariant_errors) ==
    [type |-> "SchemaNotCorrectlyImplemented",
     errors |-> Values(schema_error_dict, schema, 1) \o invariant_errors,
     schema_errors |-> schema_error_dict,
     invariant_errors |-> invariant_errors]

\* ------------------------------------------------------------ the walk
\* A thread starts its top-level call field.validate(value); the value is a
\* real object, so Field.validate goes on to Object._validate.
Field_validate(t) ==
    /\ pc[t] = "idle" /\ top[t] # NoCall
    /\ pc' = [pc EXCEPT ![t] = "running"]
    /\ stack' = [stack EXCEPT ![t] = <<ObjectFrame(t, top[t].field, top[t].value)>>]
    /\ UNCHANGED <<world, fields, ret, VALIDATED_VALUES, outcome, history>>

\* Object._validate, lines 699-707: the base field check, the providedBy check,
\* then the call of _validate_fields
Object__validate(t) ==
    /\ pc[t] = "running" /\ stack[t] # <<>>
    /\ Top(t).op = "Object._validate" /\ Top(t).pc = "start"
    /\ LET fr == Top(t) IN
       IF Field__validate(fr.field, fr.value) # Ok \/ ~providedBy(fr.field.schema, fr.value)
       THEN LET e == IF Field__validate(fr.field, fr.value) # Ok
                     THEN Field__validate(fr.field, fr.value)
                     ELSE Exc("SchemaNotProvided") IN
            /\ stack' = [stack EXCEPT ![t] = Pop(t)]
            /\ ret' = [ret EXCEPT ![t] = Raised(e)]
            /\ ovExit' = [ovExit EXCEPT ![t] =
                 [field |-> fr.field, value |-> fr.value,
                  walked |-> FALSE, hook |-> FALSE,
                  schema_errors |-> EmptyMap, invariant_errors |-> <<>>,
                  result |-> Raised(e),
                  before |-> fr.before, after |-> Visited(t)]]
       ELSE /\ Len(stack[t]) < MaxDepth
            /\ stack' = [stack EXCEPT ![t] =
                 Append(SetTop(t, [fr EXCEPT !.pc = "walked"]),
                        FieldsFrame(t, fr.field.schema, fr.value))]
            /\ UNCHANGED <<ret, ovExit>>
    /\ UNCHANGED <<world, fields, pc, VALIDATED_VALUES, outcome, exits, reached, checked>>

\* (mutant) no cycle guard: the membership test never succeeds
NeverVisited(t, value) == FALSE

\* `id(value) in VALIDATED_VALUES.__dict__`, line 645
AlreadyVisited(t, value) == id(value) \in Visited(t)

\* (mutant) the guard passed without recording the value
RememberNothing(fr, visited) == visited

\* `VALIDATED_VALUES.__dict__[id(value)] = True`, line 647: what the dict holds
\* once the frame has passed the guard
Remember(fr, visited) == visited \cup {id(fr.value)}

\* _validate_fields, lines 634-647: the Interface short cut and the cycle guard
validate_fields_guard(t) ==
    /\ pc[t] = "running" /\ stack[t] # <<>>
    /\ Top(t).op = "_validate_fields" /\ Top(t).pc = "enter"
    /\ LET fr == Top(t) IN
       /\ reached' = [reached EXCEPT ![t] = @ \cup {<<fr.schema, fr.value>>}]
       /\ IF fr.schema = Interface \/ AlreadyVisited(t, fr.value)
          THEN /\ stack' = [stack EXCEPT ![t] = Pop(t)]
               /\ ret' = [ret EXCEPT ![t] = Returned(fr.errors)]
               /\ exits' = [exits EXCEPT ![t] =
                    [path |-> IF fr.schema = Interface THEN "interface" ELSE "visited",
                     schema |-> fr.schema, value |-> fr.value,
                     result |-> Returned(fr.errors),
                     before |-> fr.before, after |-> Visited(t)]]
               /\ UNCHANGED VALIDATED_VALUES
          ELSE /\ VALIDATED_VALUES' = [VALIDATED_VALUES EXCEPT
                    ![ThreadLocalDict(t)] = Remember(fr, @)]
               /\ stack' = [stack EXCEPT ![t] = SetTop(t, [fr EXCEPT !.pc = "loop"])]
               /\ UNCHANGED <<ret, exits>>
    /\ UNCHANGED <<world, fields, pc, outcome, ovExit, checked>>

\* the frame of _validate_fields that is at `for name in schema.names(all=True)`
InLoop(t) ==
    /\ pc[t] = "running" /\ stack[t] # <<>>
    /\ Top(t).op = "_validate_fields" /\ Top(t).pc = "loop"
    /\ Top(t).i <= Len(names(Top(t).schema))
CurName(t) == names(Top(t).schema)[Top(t).i]
CurAttribute(t) == Declared(Top(t).schema, CurName(t))

\* (mutant) `except AttributeError: pass`: a missing attribute is not recorded
AfterAttributeIgnoreMissing(fr, name, r) ==
    IF r = Ok \/ r.type = "SchemaNotFullyImplemented" THEN [fr EXCEPT !.i = @ + 1, !.pc = "loop"]
    ELSE IF IsValidationError(r)
         THEN [fr EXCEPT !.i = @ + 1, !.pc = "loop", !.errors = Put(@, name, r)]
         ELSE [fr EXCEPT !.pc = "finally", !.exc = r]

\* the loop body's result for one attribute: nothing recorded, a validation
\* error recorded under the name, or another exception leaving the loop
AfterAttribute(fr, name, r) ==
    IF r = Ok THEN [fr EXCEPT !.i = @ + 1, !.pc = "loop"]
    ELSE IF r.type = "SchemaNotFullyImplemented" \/ IsValidationError(r)
         THEN [fr EXCEPT !.i = @ + 1, !.pc = "loop", !.errors = Put(@, name, r)]
         ELSE [fr EXCEPT !.pc = "finally", !.exc = r]

\* lines 655-656: a method is skipped
validate_fields_method(t) ==
    /\ InLoop(t) /\ IMethod(CurAttribute(t))
    /\ stack' = [stack EXCEPT ![t] = SetTop(t, [Top(t) EXCEPT !.i = @ + 1])]
    /\ UNCHANGED <<world, fields, pc, ret, VALIDATED_VALUES, outcome, history>>

\* lines 659-666 fall through: an attribute that is neither a Choice nor a field
validate_fields_nonfield(t) ==
    /\ InLoop(t) /\ ~IMethod(CurAttribute(t)) /\ ~IField(CurAttribute(t))
    /\ stack' = [stack EXCEPT ![t] = SetTop(t, [Top(t) EXCEPT !.i = @ + 1])]
    /\ UNCHANGED <<world, fields, pc, ret, VALIDATED_VALUES, outcome, history>>

\* lines 659-663: a Choice is bound to the value, then the bound clone validates
validate_fields_choice(t) ==
    /\ InLoop(t) /\ IChoice(CurAttribute(t))
    /\ LET fr == Top(t)
           bound == Choice_bind(CurAttribute(t), fr.value)
           v == getattr(fr.value, CurName(t))
           r == IF bound.kind = "raise" THEN bound.val
                ELSE IF v = NoAttr THEN Exc("SchemaNotFullyImplemented")
                ELSE Leaf_validate(Validator(CurAttribute(t), bound.val), v)
       IN /\ stack' = [stack EXCEPT ![t] = SetTop(t,
                [AfterAttribute(fr, CurName(t), r) EXCEPT !.validated_by =
                    IF bound.kind = "return" /\ v # NoAttr
                    THEN Validator(CurAttribute(t), bound.val) ELSE @])]
          /\ checked' = [checked EXCEPT ![t] =
                IF bound.kind = "return" /\ v # NoAttr
                THEN @ \cup {<<fr.schema, fr.value, CurName(t)>>} ELSE @]
    /\ UNCHANGED <<world, fields, pc, ret, VALIDATED_VALUES, outcome, exits, ovExit, reached>>

\* lines 664-666 for a field that is not an Object field
validate_fields_leaf(t) ==
    /\ InLoop(t) /\ CurAttribute(t).kind = "Int"
    /\ LET fr == Top(t)
           v == getattr(fr.value, CurName(t))
           r == IF v = NoAttr THEN Exc("SchemaNotFullyImplemented")
                ELSE Leaf_validate(CurAttribute(t), v)
       IN /\ stack' = [stack EXCEPT ![t] = SetTop(t, AfterAttribute(fr, CurName(t), r))]
          /\ checked' = [checked EXCEPT ![t] =
                IF v # NoAttr THEN @ \cup {<<fr.schema, fr.value, CurName(t)>>} ELSE @]
    /\ UNCHANGED <<world, fields, pc, ret, VALIDATED_VALUES, outcome, exits, ovExit, reached>>

\* lines 664-666 for an Object field: the nested Object._validate is called
validate_fields_object(t) ==
    /\ InLoop(t) /\ CurAttribute(t).kind = "Object"
    /\ LET fr == Top(t)
           v == getattr(fr.value, CurName(t))
       IN /\ IF v = NoAttr
             THEN stack' = [stack EXCEPT ![t] =
                     SetTop(t, AfterAttribute(fr, CurName(t), Exc("SchemaNotFullyImplemented")))]
             ELSE IF Field_validate_missing(CurAttribute(t), v) = "RequiredMissing"
             THEN stack' = [stack EXCEPT ![t] =
                     SetTop(t, AfterAttribute(fr, CurName(t), Exc("RequiredMissing")))]
             ELSE IF Field_validate_missing(CurAttribute(t), v) = "skip"
             THEN stack' = [stack EXCEPT ![t] = SetTop(t, AfterAttribute(fr, CurName(t), Ok))]
             ELSE /\ Len(stack[t]) < MaxDepth
                  /\ stack' = [stack EXCEPT ![t] =
                        Append(SetTop(t, [fr EXCEPT !.pc = "await"]),
                               ObjectFrame(t, CurAttribute(t), v))]
          /\ checked' = [checked EXCEPT ![t] =
                IF v # NoAttr THEN @ \cup {<<fr.schema, fr.value, CurName(t)>>} ELSE @]
    /\ UNCHANGED <<world, fields, pc, ret, VALIDATED_VALUES, outcome, exits, ovExit, reached>>

\* lines 667-671 after the nested validate came back
validate_fields_nested(t) ==
    /\ pc[t] = "running" /\ stack[t] # <<>>
    /\ Top(t).op = "_validate_fields" /\ Top(t).pc = "await"
    /\ ret[t] # NoRet
    /\ stack' = [stack EXCEPT ![t] =
          SetTop(t, AfterAttribute(Top(t), CurName(t),
                                   IF ret[t].kind = "return" THEN Ok ELSE ret[t].val))]
    /\ ret' = [ret EXCEPT ![t] = NoRet]
    /\ UNCHANGED <<world, fields, pc, VALIDATED_VALUES, outcome, history>>

\* (mutant) the `del` placed after the loop instead of in a finally clause
ForgetOnReturn(fr, visited) ==
    IF fr.pc = "finally" THEN visited ELSE visited \ {id(fr.value)}

\* `finally: del VALIDATED_VALUES.__dict__[id(value)]`, lines 672-673: what is
\* left in the dict when the frame is left, by return or by exception
Forget(fr, visited) == visited \ {id(fr.value)}

\* lines 672-674: the finally clause, then the return (or the exception goes on)
validate_fields_finally(t) ==
    /\ pc[t] = "running" /\ stack[t] # <<>>
    /\ Top(t).op = "_validate_fields"
    /\ \/ Top(t).pc = "finally"
       \/ Top(t).pc = "loop" /\ Top(t).i > Len(names(Top(t).schema))
    /\ LET fr == Top(t)
           result == IF fr.pc = "finally" THEN Raised(fr.exc) ELSE Returned(fr.errors)
           after == Forget(fr, Visited(t))
       IN /\ VALIDATED_VALUES' = [VALIDATED_VALUES EXCEPT ![ThreadLocalDict(t)] = after]
          /\ stack' = [stack EXCEPT ![t] = Pop(t)]
          /\ ret' = [ret EXCEPT ![t] = result]
          /\ exits' = [exits EXCEPT ![t] =
               [path |-> IF fr.pc = "finally" THEN "exception" ELSE "normal",
                schema |-> fr.schema, value |-> fr.value, result |-> result,
                before |-> fr.before, after |-> after]]
    /\ UNCHANGED <<world, fields, pc, outcome, ovExit, reached, checked>>

\* (mutant) the invariant hook skipped once the walk has found errors
RunsInvariantsIfClean(f, schema_error_dict) ==
    f.validate_invariants /\ schema_error_dict = EmptyMap

\* line 709: whether the invariant hook is invoked
RunsInvariants(f, schema_error_dict) == f.validate_invariants

\* line 719: whether the aggregate error is raised
MustRaise(schema_error_dict, invariant_errors) ==
    schema_error_dict # EmptyMap \/ invariant_errors # <<>>

\* Object._validate, lines 707-734, once _validate_fields came back
Object__validate_result(t) ==
    /\ pc[t] = "running" /\ stack[t] # <<>>
    /\ Top(t).op = "Object._validate" /\ Top(t).pc = "walked"
    /\ ret[t] # NoRet
    /\ LET fr == Top(t)
           walkRaised == ret[t].kind = "raise"
           schema_error_dict == IF walkRaised THEN EmptyMap ELSE ret[t].val
           hook == ~walkRaised /\ RunsInvariants(fr.field, schema_error_dict)
           invariant_errors == IF hook THEN validateInvariants(fr.field.schema, fr.value)
                               ELSE <<>>
           result == IF walkRaised THEN ret[t]
                     ELSE IF MustRaise(schema_error_dict, invariant_errors)
                          THEN Raised(SchemaNotCorrectlyImplemented(
                                   fr.field.schema, schema_error_dict, invariant_errors))
                          ELSE Returned(NoValue)
       IN /\ stack' = [stack EXCEPT ![t] = Pop(t)]
          /\ ret' = [ret EXCEPT ![t] = result]
          /\ ovExit' = [ovExit EXCEPT ![t] =
               [field |-> fr.field, value |-> fr.value, walked |-> TRUE, hook |-> hook,
                schema_errors |-> schema_error_dict, invariant_errors |-> invariant_errors,
                result |-> result, before |-> fr.before, after |-> Visited(t)]]
    /\ UNCHANGED <<world, fields, pc, VALIDATED_VALUES, outcome, exits, reached, checked>>

\* the top-level validate call is over
Field_validate_done(t) ==
    /\ pc[t] = "running" /\ stack[t] = <<>> /\ ret[t] # NoRet
    /\ outcome' = [outcome EXCEPT ![t] = ret[t]]
    /\ ret' = [ret EXCEPT ![t] = NoRet]
    /\ pc' = [pc EXCEPT ![t] = "done"]
    /\ UNCHANGED <<world, fields, stack, VALIDATED_VALUES, history>>

\* ------------------------------------------------------------ specifications
\* the Object fields a top-level call is made on
TopFields == {ObjectField("IA", TRUE), ObjectField("IB", TRUE)}
TopCalls == [field : TopFields, value : Objs]

\* the object graphs: a and b with their attributes, what they provide, the
\* objects that break the invariants, and what the binder gives for each
Worlds ==
    /\ \E an \in {"a", "b", None}, ao \in {"a", "b", None, NoAttr},
          ax \in {"i1", "u1", NoAttr}, bn \in {"a", None} :
          attrs = [o \in Objs |->
                     IF o = "a"
                     THEN [m |-> "method", next |-> an, other |-> ao, x |-> ax,
                           any |-> "a", p |-> "i1"]
                     ELSE [m |-> "method", next |-> bn, other |-> None, x |-> "i1",
                           any |-> "b", p |-> "i1"]]
    /\ \E pb \in {{"IA", "IB"}, {"IA"}} :
          provides = [o \in Objs |-> IF o = "a" THEN {"IA", "IB"} ELSE pb]
    /\ invBad \in SUBSET Objs
    /\ \E ba \in {"V1", "Src"}, bb \in {"V1", "Junk"} :
          binderOut = [o \in Objs |-> IF o = "a" THEN ba ELSE bb]

Idle ==
    /\ pc = [t \in Threads |-> "idle"]
    /\ stack = [t \in Threads |-> <<>>]
    /\ ret = [t \in Threads |-> NoRet]
    /\ VALIDATED_VALUES = [t \in Threads |-> {}]
    /\ outcome = [t \in Threads |-> NoRet]
    /\ exits = [t \in Threads |-> NoExit]
    /\ ovExit = [t \in Threads |-> NoObjectExit]
    /\ reached = [t \in Threads |-> {}]
    /\ checked = [t \in Threads |-> {}]
    /\ heap = Prototypes

\* one thread validates
Init ==
    /\ Worlds
    /\ \E c \in TopCalls : top = [t \in Threads |-> IF t = "t1" THEN c ELSE NoCall]
    /\ Idle
    /\ last = NoOp

Step(t) ==
    \/ Field_validate(t)
    \/ Object__validate(t)
    \/ validate_fields_guard(t)
    \/ validate_fields_method(t)
    \/ validate_fields_nonfield(t)
    \/ validate_fields_choice(t)
    \/ validate_fields_leaf(t)
    \/ validate_fields_object(t)
    \/ validate_fields_nested(t)
    \/ validate_fields_finally(t)
    \/ Object__validate_result(t)
    \/ Field_validate_done(t)

Next == \E t \in Threads : Step(t)

Spec == Init /\ [][Next]_vars

\* every thread that can take a step eventually takes one: the interpreter runs
\* each thread's next bytecode, and nothing in the walk blocks
FairSpec == Spec /\ \A t \in Threads : WF_vars(Step(t))

\* two threads validate at the same time, on a smaller family of object graphs
WorldsThreads ==
    /\ \E an \in {"a", "b", None}, ao \in {"a", "b", None}, ax \in {"i1", "u1"},
          bn \in {"a", None} :
          attrs = [o \in Objs |->
                     IF o = "a"
                     THEN [m |-> "method", next |-> an, other |-> ao, x |-> ax,
                           any |-> "a", p |-> "i1"]
                     ELSE [m |-> "method", next |-> bn, other |-> None, x |-> "i1",
                           any |-> "b", p |-> "i1"]]
    /\ provides = [o \in Objs |-> {"IA", "IB"}]
    /\ invBad \in {{}, {"a"}}
    /\ binderOut = [o \in Objs |-> "V1"]

InitThreads ==
    /\ WorldsThreads
    /\ \E v1 \in Objs, v2 \in Objs :
          top = [t \in Threads |->
                   [field |-> ObjectField("IA", TRUE), value |-> IF t = "t1" THEN v1 ELSE v2]]
    /\ Idle
    /\ last = NoOp

SpecThreads == InitThreads /\ [][Next]_vars

\* ----------------------------------------------- fields: construct, bind, validate
\* the walk's variables while fields are constructed, bound and validated
\* directly: b's binder gives something that is no source
WorldFields ==
    /\ attrs = [o \in Objs |-> [m |-> "method", next |-> None, other |-> None, x |-> "i1",
                                any |-> o, p |-> "i1"]]
    /\ provides = [o \in Objs |-> {"IA", "IB"}]
    /\ invBad = {}
    /\ binderOut = [o \in Objs |-> IF o = "a" THEN "V1" ELSE "Junk"]
    /\ top = [t \in Threads |-> NoCall]

UNCHANGED_walk ==
    UNCHANGED <<world, history, pc, stack, ret, VALIDATED_VALUES, outcome>>

\* values to validate a field with: scalars for a leaf, containers of the
\* field's own type with at most one member for a collection or mapping
RECURSIVE SampleValues(_)
SampleValues(f) ==
    IF f.kind \in CollectionKinds
    THEN {Container(f.type, <<>>)}
         \cup {Container(f.type, <<x>>) :
                  x \in IF f.value_type = NoFieldRec THEN {"i1"}
                        ELSE SampleValues(f.value_type)}
    ELSE IF f.kind \in MappingKinds
    THEN {Container(f.type, <<>>)}
         \cup {Container(f.type, << <<k, v>> >>) :
                  k \in SampleValues(f.key_type), v \in SampleValues(f.value_type)}
    ELSE {"i1", "u1"}

\* field.bind(object) on any field of the heap, prototype or clone; the clones
\* of a bind that raised are unreachable and are collected
Bind(f, object) ==
    LET b == bind(heap, f, object) IN
    /\ Len(b.heap) <= Len(Prototypes) + MaxClones
    /\ heap' = IF b.result.kind = "raise" THEN SubSeq(b.heap, 1, Len(heap)) ELSE b.heap
    /\ last' = [op |-> "bind", field |-> f, object |-> object, result |-> b.result]
    /\ UNCHANGED_walk

\* field.validate(value) on any field of the heap
Validate(f, value) ==
    /\ heap' = heap
    /\ last' = [op |-> "validate", field |-> f, f |-> Deref(heap, f), value |-> value,
                result |-> validate(Deref(heap, f), value)]
    /\ UNCHANGED_walk

InitFields ==
    /\ WorldFields
    /\ Idle
    /\ last = NoOp

NextFields ==
    \/ \E f \in 1..Len(heap), object \in Objs : Bind(f, object)
    \/ \E f \in 1..Len(heap) : \E value \in SampleValues(Deref(heap, f)) : Validate(f, value)

SpecFields == InitFields /\ [][NextFields]_vars

\* Choice(values=..., vocabulary=..., source=..., default=...)
ChoiceValues == {None, "vals1", "vals0"}
ChoiceVocabularies == {None, "reg", "unreg", "", "V1", "Src", "Bnd", "Junk"}
ChoiceDefaults == {None, "i1", "u1"}

\* the constructor's arguments are chosen
InitChoice ==
    /\ WorldFields
    /\ Idle
    /\ \E values \in ChoiceValues, vocabulary \in ChoiceVocabularies,
          source \in ChoiceVocabularies, default \in ChoiceDefaults :
          last = [op |-> "call", values |-> values, vocabulary |-> vocabulary,
                  source |-> source, default |-> default, self |-> NoFieldRec,
                  result |-> NoRet]

\* the constructor runs up to the call of the base constructor (lines
\* 285-324): it raises, or self has its vocabulary and its flag
Choice_new ==
    /\ last.op = "call"
    /\ LET p == Choice_prepare(last.values, last.vocabulary, last.source) IN
       last' = IF p.kind = "raise"
               THEN [last EXCEPT !.op = "Choice", !.result = p]
               ELSE [last EXCEPT !.op = "init", !.self = p.val]
    /\ heap' = heap
    /\ UNCHANGED_walk

\* the base constructor validates the default and the constructor ends
\* (lines 325-326)
Choice_init_done ==
    /\ last.op = "init"
    /\ last' = [last EXCEPT !.op = "Choice", !.result = Choice_finish(last.self, last.default)]
    /\ heap' = heap
    /\ UNCHANGED_walk

NextChoice == Choice_new \/ Choice_init_done

SpecChoice == InitChoice /\ [][NextChoice]_vars

\* collection fields and the values they are validated with
ValueTypes == {NoFieldRec, TextLineField, IntField, Choice___init__("vals1", None, None, None).val}
CollectionFields ==
    {CollectionField(k[1], k[2], value_type, unique, max_length) :
        k \in {<<"List", "list">>, <<"Tuple", "tuple">>},
        value_type \in ValueTypes, unique \in BOOLEAN, max_length \in {Unlimited, MaxLen - 1}}
Scalars == {"b1", "u1", "u2", "i1", "nl"}
SeqsUpTo(n) == UNION {[1..k -> Scalars] : k \in 0..n}
Containers == {Container(type, items) : type \in {"list", "tuple"}, items \in SeqsUpTo(MaxLen)}

\* the field and the value it is given are chosen
InitCollections ==
    /\ WorldFields
    /\ Idle
    /\ \E f \in CollectionFields, value \in Containers \cup {NoContainer} :
          last = [op |-> "call", field |-> NoField, f |-> f, value |-> value,
                  result |-> NoExc]

\* field.validate(value) runs
Collection_validate ==
    /\ last.op = "call"
    /\ last' = [last EXCEPT !.op = "validate", !.result = validate(last.f, last.value)]
    /\ heap' = heap
    /\ UNCHANGED_walk

NextCollections == Collection_validate

SpecCollections == InitCollections /\ [][NextCollections]_vars

\* ------------------------------------------------------------ fromUnicode
\* A text is the sequence of its characters: a letter, a digit, a dot, a
\* colon, a space, a newline and a non-ASCII letter.
Chars == {"a", "1", ".", ":", "sp", "nl", "eacute"}
Whitespace == {"sp", "nl"}
Texts == UNION {[1..k -> Chars] : k \in 0..MaxText}

\* a converted value: text and bytes carry characters, numbers their value
\* in units of 10^-MaxText
TextValue(chars) == [type |-> "text", chars |-> chars]
BytesValue(chars) == [type |-> "bytes", chars |-> chars]
NumberValue(type, num) == [type |-> type, num |-> num]

\* str.strip()
RECURSIVE lstrip(_)
lstrip(s) == IF s # <<>> /\ Head(s) \in Whitespace THEN lstrip(Tail(s)) ELSE s
RECURSIVE rstrip(_)
rstrip(s) ==
    IF s # <<>> /\ s[Len(s)] \in Whitespace THEN rstrip(SubSeq(s, 1, Len(s) - 1)) ELSE s
strip(s) == rstrip(lstrip(s))

\* str.encode('ascii') succeeds
IsAscii(s) == \A i \in 1..Len(s) : s[i] # "eacute"

\* the text without a final newline: what a pattern ending in $ has to cover
BeforeFinalNewline(s) ==
    IF s # <<>> /\ s[Len(s)] = "nl" THEN SubSeq(s, 1, Len(s) - 1) ELSE s

\* _isuri, lines 367-369: scheme characters, a colon, then no whitespace
_isuri(s) ==
    \E i \in 2..Len(s) :
        /\ s[i] = ":"
        /\ \A j \in 1..(i - 1) : s[j] \in {"a", "1", "."}
        /\ \A j \in (i + 1)..Len(BeforeFinalNewline(s)) : s[j] \notin Whitespace

\* one run of _isdotted's pattern over the whole of s: every dot is followed
\* by a letter, the first character is a letter, the rest letters and digits
Dotted(s) ==
    /\ s # <<>>
    /\ s[1] = "a"
    /\ \A i \in 1..Len(s) : s[i] \in {"a", "1", "."}
    /\ \A i \in 1..Len(s) : s[i] = "." => (i < Len(s) /\ s[i + 1] = "a")
\* _isdotted, lines 392-396
_isdotted(s) == Dotted(s) \/ Dotted(BeforeFinalNewline(s))

\* value.count(".")
CountDots(s) == Cardinality({i \in 1..Len(s) : s[i] = "."})

\* 11...1 with k digits
Ones(k) == ((10 ^ k) - 1) \div 9

\* float(uc) and decimal.Decimal(uc) accept, around whitespace, digits with
\* at most one dot and at least one digit
IsNumeral(uc) ==
    /\ \A i \in 1..Len(strip(uc)) : strip(uc)[i] \in {"1", "."}
    /\ CountDots(strip(uc)) <= 1
    /\ CountDots(strip(uc)) < Len(strip(uc))
\* the number a numeral denotes
NumeralValue(uc) ==
    LET s == strip(uc)
        dot == IF CountDots(s) = 0 THEN Len(s) + 1 ELSE CHOOSE i \in 1..Len(s) : s[i] = "."
        decimals == IF CountDots(s) = 0 THEN 0 ELSE Len(s) - dot
    IN  Ones(dot - 1) * (10 ^ MaxText) + Ones(decimals) * (10 ^ (MaxText - decimals))
One == 10 ^ MaxText

\* a leaf field with fromUnicode: its class, its bounds and its constraint
\* (min, max, max_length, max_dots: Unlimited stands for None)
ConvertingField(kind, type) ==
    [kind |-> kind, type |-> type, required |-> TRUE, min |-> Unlimited, max |-> Unlimited,
     min_length |-> 0, max_length |-> Unlimited, min_dots |-> 0, max_dots |-> Unlimited,
     constraint |-> "accept"]

\* Field._validate of these classes: the _type check, then the constraint
\* (the field's own, and the line classes' no-newline rule)
Converting_Field__validate(f, v) ==
    IF v.type # f.type THEN Exc("WrongType")
    ELSE IF f.constraint = "reject" THEN Exc("ConstraintNotSatisfied")
    ELSE IF f.kind \in {"URI", "DottedName", "Id"} /\ \E i \in 1..Len(v.chars) : v.chars[i] = "nl"
    THEN Exc("ConstraintNotSatisfied")
    ELSE Ok

\* Orderable._validate after it
Orderable__validate(f, v) ==
    IF Converting_Field__validate(f, v) # Ok THEN Converting_Field__validate(f, v)
    ELSE IF f.min # Unlimited /\ v.num < f.min THEN Exc("TooSmall")
    ELSE IF f.max # Unlimited /\ v.num > f.max THEN Exc("TooBig")
    ELSE Ok

\* MinMaxLen._validate after it
MinMaxLen__validate(f, v) ==
    IF Converting_Field__validate(f, v) # Ok THEN Converting_Field__validate(f, v)
    ELSE IF Len(v.chars) < f.min_length THEN Exc("TooShort")
    ELSE IF f.max_length # Unlimited /\ Len(v.chars) > f.max_length THEN Exc("TooLong")
    ELSE Ok

\* URI._validate, lines 377-382
URI__validate(f, v) ==
    IF MinMaxLen__validate(f, v) # Ok THEN MinMaxLen__validate(f, v)
    ELSE IF _isuri(v.chars) THEN Ok
    ELSE Exc("InvalidURI")

\* DottedName._validate, lines 439-453
DottedName__validate(f, v) ==
    IF MinMaxLen__validate(f, v) # Ok THEN MinMaxLen__validate(f, v)
    ELSE IF ~_isdotted(v.chars) THEN Exc("InvalidDottedName")
    ELSE IF CountDots(v.chars) < f.min_dots THEN Exc("InvalidDottedName")
    ELSE IF f.max_dots # Unlimited /\ CountDots(v.chars) > f.max_dots
    THEN Exc("InvalidDottedName")
    ELSE Ok

\* Id._validate, lines 466-473
Id__validate(f, v) ==
    IF MinMaxLen__validate(f, v) # Ok THEN MinMaxLen__validate(f, v)
    ELSE IF _isuri(v.chars) THEN Ok
    ELSE IF _isdotted(v.chars) /\ CountDots(v.chars) > 0 THEN Ok
    ELSE Exc("InvalidId")

\* field.validate(v) of a leaf field with fromUnicode, for a value that is
\* not None; a Choice is given one of the scalar texts
Converting_validate(f, v) ==
    CASE f.kind = "Choice" -> Leaf_validate(f, v)
      [] f.kind \in {"Float", "Decimal"} -> Orderable__validate(f, v)
      [] f.kind = "Bytes" -> MinMaxLen__validate(f, v)
      [] f.kind = "URI" -> URI__validate(f, v)
      [] f.kind = "DottedName" -> DottedName__validate(f, v)
      [] OTHER -> Id__validate(f, v)

\* (mutant) fromUnicode returning the converted value without validating it
ReturnUnvalidated(f, v) == Returned(v)

\* self.validate(v); return v -- lines 152-153, 217-218, 243-244, 348-349,
\* 388-389, 415-416
ValidateAndReturn(f, v) ==
    IF Converting_validate(f, v) # Ok THEN Raised(Converting_validate(f, v)) ELSE Returned(v)

\* make_binary(uc): the text encoded as ASCII bytes
make_binary(uc) == IF IsAscii(uc) THEN Returned(BytesValue(uc)) ELSE Raised(Exc("UnicodeEncodeError"))

\* Bytes.fromUnicode, lines 148-153
Bytes_fromUnicode(f, uc) ==
    IF make_binary(uc).kind = "raise" THEN make_binary(uc)
    ELSE ValidateAndReturn(f, make_binary(uc).val)

\* Float.fromUnicode, lines 210-218
Float_fromUnicode(f, uc) ==
    IF ~IsNumeral(uc) THEN Raised(Exc("InvalidFloatLiteral"))
    ELSE ValidateAndReturn(f, NumberValue("float", NumeralValue(uc)))

\* Decimal.fromUnicode, lines 236-244
Decimal_fromUnicode(f, uc) ==
    IF ~IsNumeral(uc) THEN Raised(Exc("InvalidDecimalLiteral"))
    ELSE ValidateAndReturn(f, NumberValue("decimal", NumeralValue(uc)))

\* Choice.fromUnicode, lines 345-349
Choice_fromUnicode(f, str) == ValidateAndReturn(f, str)

\* URI.fromUnicode, lines 384-389 (under Python 3 str() of a text is the text)
URI_fromUnicode(f, value) == ValidateAndReturn(f, TextValue(strip(value)))

\* _StrippedNativeStringLine.fromUnicode, lines 403-416
Stripped_fromUnicode(f, value) ==
    IF ~IsAscii(strip(value))
    THEN Raised(Exc(IF f.kind = "DottedName" THEN "InvalidDottedName" ELSE "InvalidId"))
    ELSE ValidateAndReturn(f, TextValue(strip(value)))

\* field.fromUnicode(s)
fromUnicode(f, s) ==
    CASE f.kind = "Choice" -> Choice_fromUnicode(f, s)
      [] f.kind = "Bytes" -> Bytes_fromUnicode(f, s)
      [] f.kind = "Float" -> Float_fromUnicode(f, s)
      [] f.kind = "Decimal" -> Decimal_fromUnicode(f, s)
      [] f.kind = "URI" -> URI_fromUnicode(f, s)
      [] OTHER -> Stripped_fromUnicode(f, s)

\* the fields fromUnicode is called on
ConvertingFields ==
    {[ConvertingField(k[1], k[2]) EXCEPT !.min = b[1], !.max = b[2], !.constraint = c] :
        k \in {<<"Float", "float">>, <<"Decimal", "decimal">>},
        b \in {<<Unlimited, Unlimited>>, <<One, Unlimited>>, <<Unlimited, One>>},
        c \in {"accept", "reject"}}
    \cup {[ConvertingField(k[1], k[2]) EXCEPT !.min_length = l[1], !.max_length = l[2]] :
        k \in {<<"Bytes", "bytes">>, <<"URI", "text">>, <<"Id", "text">>},
        l \in {<<0, Unlimited>>, <<2, Unlimited>>, <<0, 2>>}}
    \cup {[ConvertingField("DottedName", "text") EXCEPT !.min_dots = d[1], !.max_dots = d[2]] :
        d \in {<<0, Unlimited>>, <<1, Unlimited>>, <<0, 0>>}}
    \cup {Choice___init__(None, None, "Src", None).val,
          Choice___init__(None, "reg", None, None).val,
          Choice___init__(None, "unreg", None, None).val,
          Choice___init__(None, None, "Bnd", None).val}

\* the texts a field is given: a Choice gets the scalar texts its vocabulary
\* is written in
InputsOf(f) == IF f.kind = "Choice" THEN {"u1", "u2", "nl"} ELSE Texts

\* the field and the text are chosen
InitConvert ==
    /\ WorldFields
    /\ Idle
    /\ \E f \in ConvertingFields : \E s \in InputsOf(f) :
          last = [op |-> "call", f |-> f, s |-> s, after |-> f, result |-> NoRet]

\* field.fromUnicode(s) runs; it assigns nothing on the field
Field_fromUnicode ==
    /\ last.op = "call"
    /\ last' = [last EXCEPT !.op = "fromUnicode", !.after = last.f,
                            !.result = fromUnicode(last.f, last.s)]
    /\ heap' = heap
    /\ UNCHANGED_walk

NextConvert == Field_fromUnicode

SpecConvert == InitConvert /\ [][NextConvert]_vars

\* ------------------------------------------- one call, run without interruption
\* What _validate_fields and Object._validate compute when the calling thread
\* runs alone and its dict holds `visited` at the call.
RECURSIVE walk_from(_, _, _, _, _)
RECURSIVE validate_fields_alone(_, _, _)
RECURSIVE Object__validate_alone(_, _, _)
RECURSIVE attribute_alone(_, _, _, _)

\* the loop body, lines 654-671, for the attribute `name`: Ok, or the exception
attribute_alone(schema, value, name, visited) ==
    LET attribute == Declared(schema, name)
        v == getattr(value, name)
    IN  IF ~IField(attribute) THEN Ok
        ELSE IF IChoice(attribute) /\ Choice_bind(attribute, value).kind = "raise"
             THEN Choice_bind(attribute, value).val
        ELSE IF v = NoAttr THEN Exc("SchemaNotFullyImplemented")
        ELSE IF IChoice(attribute) THEN Leaf_validate(Choice_bind(attribute, value).val, v)
        ELSE IF attribute.kind # "Object" THEN Leaf_validate(attribute, v)
        ELSE IF Field_validate_missing(attribute, v) = "RequiredMissing"
             THEN Exc("RequiredMissing")
        ELSE IF Field_validate_missing(attribute, v) = "skip" THEN Ok
        ELSE LET r == Object__validate_alone(attribute, v, visited) IN
             IF r.kind = "return" THEN Ok ELSE r.val

\* lines 653-674 from the i-th name on
walk_from(schema, value, i, errors, visited) ==
    IF i > Len(names(schema)) THEN Returned(errors)
    ELSE LET name == names(schema)[i]
             r == attribute_alone(schema, value, name, visited)
         IN  IF r = Ok THEN walk_from(schema, value, i + 1, errors, visited)
             ELSE IF IsValidationError(r)
                  THEN walk_from(schema, value, i + 1, Put(errors, name, r), visited)
                  ELSE Raised(r)

\* _validate_fields(schema, value), lines 633-674
validate_fields_alone(schema, value, visited) ==
    IF schema = Interface \/ id(value) \in visited THEN Returned(EmptyMap)
    ELSE walk_from(schema, value, 1, EmptyMap, visited \cup {id(value)})

\* Object._validate(value), lines 699-734
Object__validate_alone(f, value, visited) ==
    IF Field__validate(f, value) # Ok THEN Raised(Field__validate(f, value))
    ELSE IF ~providedBy(f.schema, value) THEN Raised(Exc("SchemaNotProvided"))
    ELSE LET w == validate_fields_alone(f.schema, value, visited) IN
         IF w.kind = "raise" THEN w
         ELSE LET invariant_errors == IF f.validate_invariants
                                      THEN validateInvariants(f.schema, value) ELSE <<>>
              IN  IF w.val # EmptyMap \/ invariant_errors # <<>>
                  THEN Raised(SchemaNotCorrectlyImplemented(f.schema, w.val, invariant_errors))
                  ELSE Returned(NoValue)

\* ------------------------------------------------------------------ claims

\* C1: every call of _validate_fields, whichever way it is left (the Interface
\* short cut, the already-visited return, the normal return, an exception
\* escaping the walk), leaves the calling thread's VALIDATED_VALUES holding
\* exactly the identities it held when the call was made.
C1_VisitedSetRestored ==
    \A t \in Threads : exits[t] # NoExit => exits[t].after = exits[t].before

\* a nested call left by a non-validation error, with its caller's identity in the set
C1_Witness ==
    \E t \in Threads :
        /\ exits[t].path = "exception"
        /\ exits[t].before # {}
        /\ ~IsValidationError(exits[t].result.val)

\* C2: on every object graph, cycles included, the top-level Object validate
\* terminates, the call stack stays within two frames per object (plus the
\* visit that is cut short), and the visit of a value already under validation
\* returns the empty error mapping.
C2_CycleSafe ==
    /\ <>(\A t \in Threads : top[t] # NoCall => pc[t] = "done")
    /\ [](\A t \in Threads : Len(stack[t]) <= 2 * Cardinality(Objs) + 2)
    /\ [](\A t \in Threads : exits[t].path = "visited" =>
              exits[t].result = Returned(EmptyMap))

\* a.next == a under IA, whose `next` is an Object field of IA: the second visit of a
C2_Witness ==
    \E t \in Threads :
        /\ getattr("a", "next") = "a"
        /\ top[t] = [field |-> ObjectField("IA", TRUE), value |-> "a"]
        /\ exits[t].path = "visited" /\ exits[t].schema = "IA" /\ exits[t].value = "a"

\* C3: with two threads validating at once, each thread's walk sees only its
\* own visited-set: an early return for an already-visited value happens only
\* for a value the same thread has under validation, a value a thread has under
\* validation stays in that thread's set whatever the other thread removes,
\* and each thread's result is the one it gets when it runs alone.
C3_ThreadsIndependent ==
    \A t \in Threads :
        /\ pc[t] = "done" =>
              outcome[t] = Object__validate_alone(top[t].field, top[t].value, {})
        /\ exits[t].path = "visited" =>
              \E k \in 1..Len(stack[t]) :
                  /\ stack[t][k].op = "_validate_fields"
                  /\ stack[t][k].pc # "enter"
                  /\ stack[t][k].value = exits[t].value
        /\ \A k \in 1..Len(stack[t]) :
              (stack[t][k].op = "_validate_fields" /\ stack[t][k].pc # "enter")
                  => id(stack[t][k].value) \in Visited(t)

\* both threads have the same object under validation at the same time
C3_Witness ==
    /\ "a" \in VALIDATED_VALUES["t1"] /\ "a" \in VALIDATED_VALUES["t2"]
    /\ \E k \in 1..Len(stack["t1"]) : stack["t1"][k].pc = "await"
    /\ \E k \in 1..Len(stack["t2"]) : stack["t2"][k].pc = "await"

\* the names a schema declares as fields
FieldNames(schema) ==
    {names(schema)[k] : k \in {j \in 1..Len(names(schema)) : IField(Declared(schema, names(schema)[j]))}}

\* C4 (as claimed): when the top-level Object validate returns without raising,
\* every attribute that a reached (schema, object) pair declares as a field has
\* been validated against the value read from that object, also when the
\* object is reached again under another schema than the one it is being
\* validated against.
C4_NoCheckLost ==
    \A t \in Threads :
        (pc[t] = "done" /\ outcome[t].kind = "return") =>
            \A pair \in reached[t] : \A n \in FieldNames(pair[1]) :
                <<pair[1], pair[2], n>> \in checked[t]

\* C5: the mapping _validate_fields returns for a non-Interface schema and a
\* value not already under validation has, for each name the schema declares
\* as a field, SchemaNotFullyImplemented exactly when the value lacks the
\* attribute, the field's own validation error exactly when the attribute is
\* present and fails validation, and no entry exactly when it is present and
\* validates; methods and non-field attributes are never keys.
C5_ErrorMapping ==
    \A t \in Threads : exits[t].path = "normal" =>
        LET e == exits[t]
            m == e.result.val
            inside == e.before \cup {id(e.value)}
        IN  /\ e.result.kind = "return"
            /\ DOMAIN m \subseteq FieldNames(e.schema)
            /\ \A n \in FieldNames(e.schema) :
                 LET v == getattr(e.value, n)
                     r == attribute_alone(e.schema, e.value, n, inside)
                 IN  /\ (n \in DOMAIN m /\ m[n] = Exc("SchemaNotFullyImplemented"))
                            <=> v = NoAttr
                     /\ (n \in DOMAIN m /\ IsValidationError(r) /\ m[n] = r
                            /\ m[n] # Exc("SchemaNotFullyImplemented"))
                            <=> (v # NoAttr /\ r # Ok)
                     /\ n \notin DOMAIN m <=> (v # NoAttr /\ r = Ok)

\* one mapping holding a missing attribute and a failed validation, and no
\* entry for the method or for the attribute that validates
C5_Witness ==
    \E t \in Threads :
        /\ exits[t].path = "normal" /\ exits[t].schema = "IA"
        /\ DOMAIN exits[t].result.val = {"other", "x"}
        /\ exits[t].result.val["other"] = Exc("SchemaNotFullyImplemented")
        /\ exits[t].result.val["x"] = Exc("WrongType")

\* C6 (as claimed): Object._validate has exactly three outcomes:
\* SchemaNotProvided before any walk or hook and without touching the
\* visited-set; else the walk, then the hook exactly when validate_invariants
\* is true, and SchemaNotCorrectlyImplemented carrying the mapping and the
\* list exactly when one of them is not empty; else a plain return.
C6_ExactlyThreeOutcomes ==
    \A t \in Threads : ovExit[t] # NoObjectExit =>
        LET e == ovExit[t] IN
        IF ~providedBy(e.field.schema, e.value)
        THEN /\ e.result = Raised(Exc("SchemaNotProvided"))
             /\ ~e.walked /\ ~e.hook /\ e.after = e.before
        ELSE /\ e.walked
             /\ e.hook = e.field.validate_invariants
             /\ e.result =
                  IF e.schema_errors # EmptyMap \/ e.invariant_errors # <<>>
                  THEN Raised(SchemaNotCorrectlyImplemented(
                           e.field.schema, e.schema_errors, e.invariant_errors))
                  ELSE Returned(NoValue)

\* C6 (amended): there is a fourth outcome.  When the walk raises an error that
\* is not a validation error, Object._validate lets it through unchanged and
\* does not run the invariant hook; the three claimed outcomes are as claimed.
C6_Outcomes ==
    \A t \in Threads : ovExit[t] # NoObjectExit =>
        LET e == ovExit[t]
            w == validate_fields_alone(e.field.schema, e.value, e.before)
        IN
        IF ~providedBy(e.field.schema, e.value)
        THEN /\ e.result = Raised(Exc("SchemaNotProvided"))
             /\ ~e.walked /\ ~e.hook /\ e.after = e.before
        ELSE /\ e.walked
             /\ IF w.kind = "raise"
                THEN e.result = w /\ ~IsValidationError(w.val) /\ ~e.hook
                ELSE /\ e.schema_errors = w.val
                     /\ e.hook = e.field.validate_invariants
                     /\ e.invariant_errors =
                          (IF e.hook THEN validateInvariants(e.field.schema, e.value)
                           ELSE <<>>)
                     /\ e.result =
                          IF e.schema_errors # EmptyMap \/ e.invariant_errors # <<>>
                          THEN Raised(SchemaNotCorrectlyImplemented(
                                   e.field.schema, e.schema_errors, e.invariant_errors))
                          ELSE Returned(NoValue)

\* the hook ran although the walk had found errors, and both are in the error
C6_Witness ==
    \E t \in Threads :
        /\ ovExit[t] # NoObjectExit
        /\ ovExit[t].hook
        /\ ovExit[t].schema_errors # EmptyMap
        /\ ovExit[t].invariant_errors # <<>>
        /\ ovExit[t].result.kind = "raise"
        /\ ovExit[t].result.val.type = "SchemaNotCorrectlyImplemented"

\* how many of the constructor's three arguments were given
Given(c) ==
    (IF c.values # None THEN 1 ELSE 0) + (IF c.vocabulary # None THEN 1 ELSE 0)
    + (IF c.source # None THEN 1 ELSE 0)

\* C7: a Choice is constructed only when exactly one of values, vocabulary and
\* source is given: none of them, values with vocabulary, values with source,
\* and source with vocabulary each raise ValueError, and a constructed Choice
\* has exactly one of vocabulary and vocabularyName set, the other None.
C7_ExactlyOneSource ==
    last.op = "Choice" =>
        /\ Given(last) # 1 => last.result = Raised(Exc("ValueError"))
        /\ last.result.kind = "return" =>
              /\ Given(last) = 1
              /\ (last.result.val.vocabulary = None) # (last.result.val.vocabularyName = None)
C7_Witness ==
    /\ last.op = "Choice"
    /\ last.vocabulary = "reg" /\ last.values = None /\ last.source = None
    /\ last.result.kind = "return"
    /\ last.result.val.vocabularyName = "reg"
    /\ last.result.val.vocabulary = None

\* C8: whatever bind and validate calls were made on the fields, and whether
\* they returned or raised, every prototype's vocabulary, vocabularyName,
\* value_type and key_type are what its constructor left.
C8_PrototypeUnchanged ==
    \A p \in 1..Len(Prototypes) :
        /\ heap[p].vocabulary = Prototypes[p].vocabulary
        /\ heap[p].vocabularyName = Prototypes[p].vocabularyName
        /\ heap[p].value_type = Prototypes[p].value_type
        /\ heap[p].key_type = Prototypes[p].key_type
\* a Dict prototype was bound: the clone holds bound clones of its sub-fields,
\* with the vocabularies the binder and the registry gave
C8_Witness ==
    /\ last.op = "bind" /\ last.field = 6 /\ last.result.kind = "return"
    /\ heap[last.result.val].key_type > Len(Prototypes)
    /\ heap[last.result.val].value_type > Len(Prototypes)
    /\ heap[heap[last.result.val].key_type].vocabulary = "V1"
    /\ heap[heap[last.result.val].value_type].vocabulary = "V1"

\* the positions of the members the value type rejects
Failing(f, items) == {i \in 1..Len(items) : validate(f.value_type, items[i]) # Ok}

Duplicates(items) == {j \in 1..Len(items) : \E i \in 1..(j - 1) : items[i] = items[j]}
Least(S) == CHOOSE j \in S : \A k \in S : j <= k

\* C10: in a collection field with unique set, a value with an invalid member
\* raises WrongContainedType and never NotUnique, and a value whose members
\* all validate raises NotUnique exactly when two members are equal, naming
\* the first member that equals an earlier one.
C10_UniqueAfterTypes ==
    (/\ last.op = "validate"
     /\ last.f.kind \in CollectionKinds
     /\ last.f.unique
     /\ last.value.type # "NoneType"
     /\ Container__validate(last.f, last.value) = Ok) =>
        LET items == last.value.items
            invalid == IF last.f.value_type = NoFieldRec THEN {}
                       ELSE Failing(last.f, items)
        IN  IF invalid # {}
            THEN last.result.type = "WrongContainedType"
            ELSE IF Duplicates(items) # {}
            THEN last.result = NotUnique(items[Least(Duplicates(items))])
            ELSE last.result = Ok
\* an invalid member and a duplicate in one value: WrongContainedType
C10_Witness ==
    /\ last.op = "validate"
    /\ last.f.kind \in CollectionKinds /\ last.f.unique
    /\ last.f.value_type = TextLineField
    /\ last.value.type = last.f.type
    /\ last.value.items = <<"u1", "i1", "u1">>
    /\ last.result.type = "WrongContainedType"

\* the errors of a text that is no literal of the field's type
InvalidLiteralErrors ==
    {"InvalidFloatLiteral", "InvalidDecimalLiteral", "InvalidURI", "InvalidDottedName",
     "InvalidId"}

\* C11 (as stated): fromUnicode either raises an invalid-literal error or
\* returns a value that validates, whatever bounds or constraint the field has.
C11_TwoOutcomes ==
    last.op = "fromUnicode" =>
        \/ /\ last.result.kind = "return"
           /\ Converting_validate(last.f, last.result.val) = Ok
        \/ /\ last.result.kind = "raise"
           /\ last.result.val.type \in InvalidLiteralErrors

\* C11: fromUnicode leaves the field as it was and has three outcomes: it
\* returns a value that validates, it raises the error of a text that cannot
\* be converted (an invalid-literal error, for Bytes the encoding error), or it
\* raises the error validate raises for the converted value (a bound, length or
\* constraint violation, for a Choice also the error of a vocabulary that
\* cannot be resolved).
C11_Outcomes ==
    last.op = "fromUnicode" =>
        /\ last.after = last.f
        /\ last.result.kind \in {"return", "raise"}
        /\ last.result.kind = "return" =>
              Converting_validate(last.f, last.result.val) = Ok
        /\ last.result.kind = "raise" =>
              \/ last.result.val.type \in InvalidLiteralErrors
              \/ last.f.kind = "Bytes" /\ last.result.val.type = "UnicodeEncodeError"
              \/ last.result.val.type \in
                    {"TooSmall", "TooBig", "TooShort", "TooLong", "ConstraintNotSatisfied"}
              \/ last.f.kind = "Choice" /\ last.result.val.type \in {"ValueError", "TypeError"}
        /\ (last.f.kind \in {"Float", "Decimal"} /\ last.f.min = Unlimited
            /\ last.f.max = Unlimited /\ last.f.constraint = "accept"
            /\ last.result.kind = "raise") =>
              last.result.val.type \in InvalidLiteralErrors
\* a Choice given a text that is not in its vocabulary: ConstraintNotSatisfied
C11_Witness ==
    /\ last.op = "fromUnicode"
    /\ last.f.kind = "Choice" /\ last.f.vocabulary = "Src" /\ last.s = "u2"
    /\ last.result = Raised(Exc("ConstraintNotSatisfied"))

\* the vocabulary a constructed Choice can validate against: the one it
\* holds, or the registry's for its name looked up without context
Resolvable(f) ==
    IF f.vocabulary # None THEN ISource(f.vocabulary) ELSE RegistryHas(f.vocabularyName)
Resolved(f) ==
    IF f.vocabulary # None THEN f.vocabulary ELSE RegistryGet(None, f.vocabularyName)

\* C12: validating a value with a constructed Choice, prototype or clone,
\* raises ConstraintNotSatisfied exactly when a vocabulary is resolved (the one
\* held, else the registry's for the name, without context) and the value is
\* not in it, succeeds exactly when one is resolved and the value is in it,
\* and raises an error that is no validation error when none can be resolved
\* (an unregistered name, an unbound context binder).
C12_ChoiceValidate ==
    (last.op = "validate" /\ last.f.kind = "Choice") =>
        /\ last.result = Exc("ConstraintNotSatisfied") <=>
              (Resolvable(last.f) /\ last.value \notin Members(Resolved(last.f)))
        /\ last.result = Ok <=>
              (Resolvable(last.f) /\ last.value \in Members(Resolved(last.f)))
        /\ ~Resolvable(last.f) =>
              (last.result # Ok /\ ~IsValidationError(last.result))
\* the prototype holding only the registered name accepts a member of the
\* vocabulary the registry gives without context, and still holds only the name
C12_Witness ==
    /\ last.op = "validate" /\ last.field = 2
    /\ last.f.vocabulary = None /\ last.f.vocabularyName = "reg"
    /\ last.value = "i1" /\ last.result = Ok
    /\ heap[2].vocabulary = None

\* Choices as their constructor leaves them: by values, by vocabulary object,
\* by source, by registered and by unregistered name, by context binder
ChoicePrototypes ==
    {Choice___init__("vals1", None, None, None).val,
     Choice___init__(None, "V1", None, None).val,
     Choice___init__(None, None, "Src", None).val,
     Choice___init__(None, "reg", None, None).val,
     Choice___init__(None, "unreg", None, None).val,
     Choice___init__(None, None, "Bnd", None).val}

\* the vocabulary bind is to leave on the clone of f bound to object
BoundVocabulary(f, object) ==
    IF IContextSourceBinder(f.vocabulary) THEN CallBinder(f.vocabulary, object)
    ELSE IF f.vocabulary = None THEN RegistryGet(object, f.vocabularyName)
    ELSE f.vocabulary
CanBind(f, object) ==
    /\ (f.vocabulary = None => RegistryHas(f.vocabularyName))
    /\ ISource(BoundVocabulary(f, object))

\* C13: bind(object) of a Choice returns a clone exactly when the vocabulary
\* the binder gives for object, else the registry gives for the name in the
\* context of object, else the field holds, is a source, and the clone then
\* holds that vocabulary; otherwise bind raises. The same holds for binding a
\* clone again. In the walk a Choice attribute is validated by a clone bound to
\* the value under validation, never by the schema's field.
C13_BindResolves ==
    /\ \A f \in ChoicePrototypes : \A object \in Objs :
          LET b == Choice_bind(f, object) IN
          IF CanBind(f, object)
          THEN /\ b.kind = "return"
               /\ b.val.vocabulary = BoundVocabulary(f, object)
               /\ ISource(b.val.vocabulary)
               /\ b.val.context = object
               /\ b.val.vocabularyName = f.vocabularyName
               /\ \A again \in Objs :
                     /\ Choice_bind(b.val, again).kind = "return"
                     /\ Choice_bind(b.val, again).val.vocabulary = b.val.vocabulary
          ELSE b.kind = "raise" /\ ~IsValidationError(b.val)
    /\ \A t \in Threads : \A k \in 1..Len(stack[t]) :
          (stack[t][k].op = "_validate_fields" /\ stack[t][k].validated_by.kind # "none") =>
              /\ stack[t][k].validated_by.context = stack[t][k].value
              /\ ISource(stack[t][k].validated_by.vocabulary)
              /\ stack[t][k].validated_by =
                    Choice_bind(Declared(stack[t][k].schema, "x"), stack[t][k].value).val
\* the walk validated b's Choice attribute with a clone bound to b, while a's
\* binder gives another vocabulary than b's, and the registry gives b's
\* context its own vocabulary
C13_Witness ==
    /\ \E t \in Threads : \E k \in 1..Len(stack[t]) :
          /\ stack[t][k].op = "_validate_fields"
          /\ stack[t][k].value = "b"
          /\ stack[t][k].validated_by.kind = "Choice"
          /\ stack[t][k].validated_by.context = "b"
          /\ stack[t][k].validated_by.vocabulary = "V1"
    /\ binderOut["a"] = "Src"
    /\ Choice_bind(Choice___init__(None, "reg", None, None).val, "b").val.vocabulary = "Src"

\* the constructor's source argument names a vocabulary of the registry, or
\* is a context binder
ByName(c) ==
    /\ c.values = None
    /\ \/ c.vocabulary \in {"reg", "unreg"} /\ c.source = None
       \/ c.vocabulary = None /\ c.source \in {"reg", "unreg"}
ByBinder(c) ==
    /\ c.values = None /\ c.vocabulary = None
    /\ IContextSourceBinder(c.source)
\* the vocabulary the constructor is given in hand: values, a vocabulary
\* object or a source
InHand(c) ==
    CASE c.values # None /\ c.vocabulary = None /\ c.source = None -> fromValues(c.values)
      [] c.values = None /\ IBaseVocabulary(c.vocabulary) /\ c.source = None -> c.vocabulary
      [] c.values = None /\ c.vocabulary = None /\ ISource(c.source) -> c.source
      [] OTHER -> None

\* C14: the flag _init_field is set, inside the constructor only, only for
\* a source that is a registry name or a context binder, and then every value
\* validates, so any default is accepted; with values or a vocabulary in hand
\* the default is validated and a default outside it makes the constructor
\* raise; the Choice the constructor returns and every clone bind makes of it
\* have the flag false.
C14_DeferredValidation ==
    /\ last.op = "init" =>
          /\ last.self.init_field => (ByName(last) \/ ByBinder(last))
          /\ (ByName(last) \/ ByBinder(last)) => last.self.init_field
          /\ last.self.init_field =>
                \A value \in ChoiceDefaults \ {None} : Leaf_validate(last.self, value) = Ok
    /\ last.op = "Choice" =>
          /\ (ByName(last) \/ ByBinder(last)) => last.result.kind = "return"
          /\ InHand(last) # None =>
                IF last.default = None \/ last.default \in Members(InHand(last))
                THEN last.result.kind = "return"
                ELSE last.result = Raised(Exc("ConstraintNotSatisfied"))
          /\ last.result.kind = "return" =>
                /\ ~last.result.val.init_field
                /\ \A object \in Objs :
                      Choice_bind(last.result.val, object).kind = "return" =>
                          ~Choice_bind(last.result.val, object).val.init_field
                /\ \A value \in ChoiceDefaults \ {None} :
                      Leaf_validate(last.result.val, value) = Ok =>
                          \E object \in {None} \cup Objs :
                              value \in Members(IF last.result.val.vocabulary # None
                                                THEN last.result.val.vocabulary
                                                ELSE RegistryGet(object, last.result.val.vocabularyName))
\* a Choice by registered name was constructed with a default that the
\* registry's vocabulary does not hold; the field returned rejects that value
C14_Witness ==
    /\ last.op = "Choice"
    /\ last.vocabulary = "reg" /\ last.values = None /\ last.source = None
    /\ last.default = "u1"
    /\ last.result.kind = "return"
    /\ ~last.result.val.init_field
    /\ Leaf_validate(last.result.val, "u1") = Exc("ConstraintNotSatisfied")

\* the frames of thread t that passed the guard of _validate_fields and have
\* not yet run its finally clause
Walking(t) ==
    {k \in 1..Len(stack[t]) :
        stack[t][k].op = "_validate_fields" /\ stack[t][k].pc # "enter"}

\* C15: in every reachable state, a thread's VALIDATED_VALUES holds exactly
\* the identities of the values whose _validate_fields call has passed the
\* guard and is still on that thread's call stack; each identity belongs to
\* exactly one such call, none of them has the Interface schema, a call that
\* has not passed the guard yet owns nothing, and the set is empty whenever
\* the thread's stack is empty.
C15_StackDiscipline ==
    \A t \in Threads :
        /\ VALIDATED_VALUES[t] = {id(stack[t][k].value) : k \in Walking(t)}
        /\ \A k \in Walking(t) : stack[t][k].schema # Interface
        /\ \A k, l \in Walking(t) : stack[t][k].value = stack[t][l].value => k = l
        /\ stack[t] = <<>> => VALIDATED_VALUES[t] = {}
\* two nested walks own a and b, and a third call, on a again, stands at the
\* guard, about to be cut short
C15_Witness ==
    \E t \in Threads :
        /\ Cardinality(Walking(t)) = 2
        /\ VALIDATED_VALUES[t] = {id("a"), id("b")}
        /\ Top(t).op = "_validate_fields" /\ Top(t).pc = "enter"
        /\ Top(t).schema # Interface
        /\ id(Top(t).value) \in VALIDATED_VALUES[t]

====
